---- MODULE Spec2Model ----
(***************************************************************************)
(* Model of the yar game loop.  The repository holds the loop twice:      *)
(*   - the package server, src/yar/server.py (YarServer.run_socket_server) *)
(*   - the standalone script, src/yar.py (Yar.run_socket_server).          *)
(* The variable `program` says which of the two is running; both share the *)
(* token bucket, the attribution and the progress counters, and differ in  *)
(* what a capture does (a point and an event for the player in the         *)
(* package, a change of the target's score and file in the standalone).    *)
(*                                                                         *)
(* Amounts of tokens are floats in the code.  They are kept here in        *)
(* fixed point: one byte is Res sub-units, and one clock tick is           *)
(* 1/(1024*Res) second, so that refill_rate * dt is a whole number of      *)
(* sub-units.  A datagram is kept run-length encoded: a sequence of runs   *)
(* [b |-> byte value, n |-> number of consecutive bytes of that value].    *)
(***************************************************************************)
EXTENDS Integers, Sequences, FiniteSets, TLC

\* ------------------------------------------------------------------ bounds
MaxIter == 2
MaxSent == 2
Res == 4
\* the awaits of a step at which an interruption is tried are 0..MaxAwait
MaxAwait == 2

\* ------------------------------------------------------- program constants
BytesMax == 10240
KiB == 1024
PlayerBandwidth == 10
SocketThreshold == 100
BandwidthPenalty == 1
WindowSeconds == 1

Players == {1, 2}
Sockets == {1, 2}
TicksPerSecond == KiB * Res

\* time.time() differences seen by the loop, in ticks: a short poll, a whole
\* second, and the wall clock having been set back by two seconds.
DtSet == {1, TicksPerSecond, -2 * TicksPerSecond}

\* persisted progress a game can be started on: a new game (setup_game writes 0)
\* or a game resumed after an earlier run
StartProgress == {0, 50}

Run(b, n) == [b |-> b, n |-> n]

Datagrams ==
  { <<Run(0, 3), Run(3, 1)>>,
    <<Run(1, 250)>>,
    <<Run(2, 60), Run(9, 1), Run(1, 70), Run(2, 45)>>,
    <<Run(1, 10300)>> }

\* the traffic of the model, as pairs of a socket and a datagram sent to it: every
\* kind of datagram on socket 1, the two kinds that mix or capture on socket 2
Traffic ==
  { <<s, d>> \in Sockets \X Datagrams :
      s = 1 \/ d \in { <<Run(1, 250)>>,
                       <<Run(2, 60), Run(9, 1), Run(1, 70), Run(2, 45)>> } }

\* a game whose sockets were created under Config.socket_threshold = 5, and its
\* traffic: datagrams of 12 bytes of one player
ScenarioThreshold == 5
ScenarioTraffic ==
  { <<1, <<Run(1, 12)>> >>, <<2, <<Run(1, 12)>> >>, <<2, <<Run(2, 12)>> >> }

VARIABLES
  program,            \* "server" (src/yar/server.py) or "yar" (src/yar.py)
  pc,                 \* "head", "select", "process", "save", "done"
  iter,               \* iterations started
  sent,               \* datagrams sent by clients
  queue,              \* per socket: datagrams received by the kernel, not yet read
  sock_open,          \* per socket: bound and not closed
  readable,           \* result of select, the part not yet processed
  data,               \* the datagram read last
  dt,                 \* current_time - last_time of the current iteration, in ticks
  bytes_available,    \* per player, in sub-units
  since_window,       \* current_time - bandwidth_window_start (server) or
                      \* current_time - last_tick_time (yar), in ticks
  bandwidth_usage,    \* per player (server)
  current_bandwidth,  \* per player (server)
  count, allowed, excess,   \* per player: the locals of the latest datagram
  p1_progress, p2_progress, \* per socket
  threshold,          \* per socket
  bytes_max,          \* per player: the capacity of the bucket, in bytes
  refill_rate,        \* per player: the rate of the bucket, in bytes per second
  score,              \* per player
  target_score,       \* per socket: score of the target paired with the factory (yar)
  target_file,        \* per socket: content of the target's file (yar)
  events,             \* the Event table
  captures,           \* history: per socket and player, captures made so far
  db,                 \* persisted fields: score, p1_progress, p2_progress, target_score;
                      \* and, per socket, the number of updates of its progress
                      \* the database has received (progress_writes)
  path,               \* per socket: what is at the socket's path in the file system:
                      \* "none", "stale" (left by an earlier run) or "socket"
  close_calls,        \* per socket: calls of close() made by the loop's `finally`
  exit_reason,        \* "none", or why the function was left: "startup" (an error
                      \* before the loop), "interrupt" (KeyboardInterrupt in select),
                      \* "raised" (an awaited persistence call raised: its own
                      \* error, or the task's cancellation delivered at that await)
  applied,            \* history: score, progress, target score and number of events
                      \* as they were after the last datagram processed in full
  tui,                \* the observer (src/yar/tui.py): "off", or "on" once its
                      \* init_db has returned
  last_event_ids,     \* per player: the observer's cursor
  received,           \* history: per player, the ids of the events the observer's
                      \* queries have handed to add_event, in the order received
  setup,              \* setup_game: its position (pc), its argument num_sockets,
                      \* the Config row it read, the id of the game it created,
                      \* and the Socket and Player tables
  ledger              \* history of the run: the progress and the scores it started
                      \* on and, per iteration started, its dt, the bytes allowed
                      \* per socket and player, the excess bytes per player

vars == << program, pc, iter, sent, queue, sock_open, readable, data, dt,
           bytes_available, since_window, bandwidth_usage, current_bandwidth,
           count, allowed, excess, p1_progress, p2_progress, threshold, bytes_max,
           refill_rate, score,
           target_score, target_file, events, captures, db,
           path, close_calls, exit_reason, applied,
           tui, last_event_ids, received, setup, ledger >>

\* the state of the observer, which the loop never touches
observer == << tui, last_event_ids, received >>

\* what is fixed when the loop starts: the sockets' thresholds as loaded, the
\* buckets' capacity and rate as constructed
settings == << threshold, bytes_max, refill_rate >>

\* the sockets' life cycle, untouched by the body of an iteration
lifecycle == << sock_open, path, close_calls, exit_reason >>

\* ----------------------------------------------------------------- helpers
Min(a, b) == IF a <= b THEN a ELSE b

\* int(x) of a float x given in sub-units: truncation toward zero
Trunc(x) == IF x >= 0 THEN x \div Res ELSE -((-x) \div Res)

\* str(n) of an integer, as the sequence of its characters
RECURSIVE DigitsOf(_)
DigitsOf(n) ==
  LET d == <<"0", "1", "2", "3", "4", "5", "6", "7", "8", "9">>[(n % 10) + 1]
  IN IF n < 10 THEN <<d>> ELSE Append(DigitsOf(n \div 10), d)

Str(n) == IF n < 0 THEN <<"-">> \o DigitsOf(-n) ELSE DigitsOf(n)

\* faulty variant for C8: both players push a target the same way
get_player_offset_same(player_id) == 1

get_player_offset(player_id) == IF player_id = 1 THEN 1 ELSE -1

\* faulty variant for C10: every non-zero byte counts for every player
is_player_byte_nonzero(player_id, byte_val) == byte_val # 0

is_player_byte(player_id, byte_val) == byte_val = player_id

\* faulty variant for C11: the count stops at the first byte that is not the
\* player's
RECURSIVE CountBytesPrefix(_, _)
CountBytesPrefix(d, p) ==
  IF d = <<>> \/ ~is_player_byte(p, Head(d).b) THEN 0
  ELSE Head(d).n + CountBytesPrefix(Tail(d), p)

\* sum(1 for b in data if is_player_byte(player, b))
RECURSIVE CountBytes(_, _)
CountBytes(d, p) ==
  IF d = <<>> THEN 0
  ELSE (IF is_player_byte(p, Head(d).b) THEN Head(d).n ELSE 0) + CountBytes(Tail(d), p)

\* refill_rate=p.bandwidth * 1024, as given to the bucket's constructor
RefillRate(p) == PlayerBandwidth * KiB

\* faulty variant for C4: the refill without the clamp to bytes_max
RefillUnclamped(avail, p, elapsed) ==
  avail + (PlayerBandwidth * KiB * Res * elapsed) \div TicksPerSecond

\* min(bytes_max, bytes_available + refill_rate * dt)
Refill(avail, p, elapsed) ==
  Min(bytes_max[p] * Res, avail + (refill_rate[p] * Res * elapsed) \div TicksPerSecond)

\* int(min(bytes_available, count))
Allowed(avail, c) == Trunc(Min(avail, c * Res))

\* faulty variant for C16: an event of the same player and source is updated in
\* place (update_or_create) instead of a new one being inserted
NewEventReplacing(evs, p, src, delta, new_score) ==
  IF \E i \in DOMAIN evs : evs[i].player = p /\ evs[i].source = src
  THEN LET i == CHOOSE j \in DOMAIN evs : evs[j].player = p /\ evs[j].source = src
       IN [evs EXCEPT ![i].delta = delta, ![i].new_score = new_score]
  ELSE Append(evs, [id |-> Len(evs) + 1, player |-> p, source |-> src,
                    delta |-> delta, new_score |-> new_score])

NewEvent(evs, p, src, delta, new_score) ==
  Append(evs, [id |-> Len(evs) + 1, player |-> p, source |-> src,
               delta |-> delta, new_score |-> new_score])


\* the players in the order of `for player in players`
PlayerOrder == <<1, 2>>

\* faulty variant for C29: select reports the first socket alone
SocketsFromFirstOnly(i) == IF queue[1] # <<>> THEN <<1>> ELSE <<>>

\* the sockets in the order of socket_files
RECURSIVE SocketsFrom(_)
SocketsFrom(i) ==
  IF i \notin Sockets THEN <<>>
  ELSE (IF queue[i] # <<>> THEN <<i>> ELSE <<>>) \o SocketsFrom(i + 1)

RECURSIVE SumOver(_, _)
SumOver(f, S) ==
  IF S = {} THEN 0
  ELSE LET x == CHOOSE y \in S : TRUE IN f[x] + SumOver(f, S \ {x})

\* the loop's mutable state, threaded through the steps of one datagram.
\* awaits_left is the number of awaited persistence calls that still complete
\* before one raises (the call's own error, or the cancellation delivered at
\* that await); below zero none raises.  interrupted says that one has raised:
\* the rest of the loop body is then skipped.
Cur ==
  [ bytes_available |-> bytes_available, bandwidth_usage |-> bandwidth_usage,
    count |-> count, allowed |-> allowed, excess |-> excess,
    p1_progress |-> p1_progress, p2_progress |-> p2_progress,
    score |-> score, target_score |-> target_score, target_file |-> target_file,
    events |-> events, captures |-> captures, db |-> db, ledger |-> ledger,
    awaits_left |-> -1, interrupted |-> FALSE ]

\* the in-memory values an observer is entitled to after a datagram
Snapshot(st) ==
  [ score |-> st.score, p1_progress |-> st.p1_progress,
    p2_progress |-> st.p2_progress, target_score |-> st.target_score,
    events |-> Len(st.events) ]

Install(st) ==
  /\ bytes_available' = st.bytes_available
  /\ bandwidth_usage' = st.bandwidth_usage
  /\ count' = st.count
  /\ allowed' = st.allowed
  /\ excess' = st.excess
  /\ p1_progress' = st.p1_progress
  /\ p2_progress' = st.p2_progress
  /\ score' = st.score
  /\ target_score' = st.target_score
  /\ target_file' = st.target_file
  /\ events' = st.events
  /\ captures' = st.captures
  /\ db' = st.db
  /\ ledger' = st.ledger
  /\ applied' = IF st.interrupted THEN applied ELSE Snapshot(st)

\* an `await` of a persistence call: it completes, or it raises
Await(st) ==
  IF st.awaits_left = 0 THEN [st EXCEPT !.interrupted = TRUE]
  ELSE [st EXCEPT !.awaits_left = @ - 1]

\* await player.save(update_fields=["score"])
PlayerSave(st, p) ==
  IF st.interrupted THEN st
  ELSE LET a == Await(st)
       IN IF a.interrupted THEN a ELSE [a EXCEPT !.db.score[p] = a.score[p]]

\* await Event.create(game, player, source, delta, new_score=player.score)
EventCreate(st, p, src, delta) ==
  IF st.interrupted THEN st
  ELSE LET a == Await(st)
       IN IF a.interrupted THEN a
          ELSE [a EXCEPT !.events = NewEvent(@, p, src, delta, a.score[p])]

\* ---------------------------------------------------- one player's bytes
\* history: an iteration starts, its dt is taken
NewIteration(l, elapsed) ==
  [l EXCEPT !.iterations =
     Append(@, [dt |-> elapsed,
                allowed |-> [s \in Sockets |-> [p \in Players |-> 0]],
                excess |-> [p \in Players |-> 0]])]

\* history: what the consume has just allowed player p on socket s, and refused
Record(st, s, p) ==
  LET n == Len(st.ledger.iterations)
  IN [st EXCEPT !.ledger.iterations[n].allowed[s][p] = @ + st.allowed[p],
                !.ledger.iterations[n].excess[p] = @ + st.excess[p]]

\* faulty variant for C36: the allowed bytes are taken from every player's bucket
ConsumeFromAll(st, p, c) ==
  LET a == Allowed(st.bytes_available[p], c)
  IN [st EXCEPT !.count[p] = c, !.allowed[p] = a, !.excess[p] = c - a,
                !.bytes_available = [q \in Players |-> @[q] - a * Res]]

\* allowed = int(min(bytes_available, count)); bytes_available -= allowed;
\* excess = count - allowed
Consume(st, p, c) ==
  LET a == Allowed(st.bytes_available[p], c)
  IN [st EXCEPT !.count[p] = c, !.allowed[p] = a, !.excess[p] = c - a,
                !.bytes_available[p] = @ - a * Res]

\* bandwidth_usage[player_id] += allowed
TrackUsage(st, p) == [st EXCEPT !.bandwidth_usage[p] = @ + st.allowed[p]]

\* faulty variant for C12: the progress is credited to the first socket, whatever
\* socket the datagram came from
AddProgressFirstSocket(st, s, p) ==
  IF p = 1 THEN [st EXCEPT !.p1_progress[1] = @ + st.allowed[p]]
  ELSE [st EXCEPT !.p2_progress[1] = @ + st.allowed[p]]

\* faulty variant for C15: the progress is credited with all the bytes received,
\* the excess included
AddProgressCount(st, s, p) ==
  IF p = 1 THEN [st EXCEPT !.p1_progress[s] = @ + st.count[p]]
  ELSE [st EXCEPT !.p2_progress[s] = @ + st.count[p]]

\* if player_id == 1: p1_progress += allowed else: p2_progress += allowed
AddProgress(st, s, p) ==
  IF p = 1 THEN [st EXCEPT !.p1_progress[s] = @ + st.allowed[p]]
  ELSE [st EXCEPT !.p2_progress[s] = @ + st.allowed[p]]

\* faulty variant for C14: the penalty is applied and recorded also for no excess
PenalizeAlways(st, p) ==
  LET penalty == -BandwidthPenalty * st.excess[p]
  IN EventCreate(PlayerSave([st EXCEPT !.score[p] = @ + penalty], p),
                 p, "BandwidthExceeded", penalty)

\* faulty variant for C35: the penalised score is clamped at 0
PenalizeClamped(st, p) ==
  IF st.excess[p] > 0
  THEN LET penalty == -BandwidthPenalty * st.excess[p]
       IN EventCreate(
            PlayerSave([st EXCEPT !.score[p] = IF @ + penalty < 0 THEN 0
                                               ELSE @ + penalty], p),
            p, "BandwidthExceeded", penalty)
  ELSE st

\* if excess > 0: the penalty, player.save and the BandwidthExceeded event
Penalize(st, p) ==
  IF st.excess[p] > 0
  THEN LET penalty == -BandwidthPenalty * st.excess[p]
       IN EventCreate(PlayerSave([st EXCEPT !.score[p] = @ + penalty], p),
                      p, "BandwidthExceeded", penalty)
  ELSE st

\* faulty variant for C7: the point is given and saved, the event is not recorded
CapturePointSilent(st, s, p) ==
  PlayerSave([st EXCEPT !.score[p] = @ + 1, !.captures[s][p] = @ + 1], p)

\* one pass of a capture loop of the package: a point, player.save, the event
CapturePoint(st, s, p) ==
  LET points == 1
  IN EventCreate(
       PlayerSave([st EXCEPT !.score[p] = @ + points, !.captures[s][p] = @ + 1], p),
       p, "Tick", points)

\* faulty variant for C13: `if` for `while`, one capture per datagram at most
CaptureOnceP1(st, s, p) ==
  IF ~st.interrupted /\ st.p1_progress[s] >= threshold[s] /\ p = 1
  THEN CapturePoint([st EXCEPT !.p1_progress[s] = @ - threshold[s]], s, p)
  ELSE st

\* while socket.p1_progress >= socket.threshold and player.player_id == 1
RECURSIVE CaptureLoopP1(_, _, _)
CaptureLoopP1(st, s, p) ==
  IF ~st.interrupted /\ st.p1_progress[s] >= threshold[s] /\ p = 1
  THEN CaptureLoopP1(
         CapturePoint([st EXCEPT !.p1_progress[s] = @ - threshold[s]], s, p), s, p)
  ELSE st

\* faulty variant for C34: a capture empties the progress counter, the bytes
\* above the threshold are lost
CaptureLoopP2Emptying(st, s, p) ==
  IF ~st.interrupted /\ st.p2_progress[s] >= threshold[s] /\ p = 2
  THEN CapturePoint([st EXCEPT !.p2_progress[s] = 0], s, p)
  ELSE st

\* while socket.p2_progress >= socket.threshold and player.player_id == 2
RECURSIVE CaptureLoopP2(_, _, _)
CaptureLoopP2(st, s, p) ==
  IF ~st.interrupted /\ st.p2_progress[s] >= threshold[s] /\ p = 2
  THEN CaptureLoopP2(
         CapturePoint([st EXCEPT !.p2_progress[s] = @ - threshold[s]], s, p), s, p)
  ELSE st

\* faulty variant for C26: the capture loops run before the penalty
ServerPlayerCapturesFirst(st, s, p, d) ==
  LET c == CountBytes(d, p)
  IN IF st.interrupted THEN st
     ELSE IF c = 0 THEN [st EXCEPT !.count[p] = 0]
     ELSE Penalize(
            CaptureLoopP2(
              CaptureLoopP1(AddProgress(TrackUsage(Record(Consume(st, p, c), s, p), p),
                                        s, p), s, p),
              s, p),
            p)

\* the body of `for player in players` of the package server
ServerPlayer(st, s, p, d) ==
  LET c == CountBytes(d, p)
  IN IF st.interrupted THEN st
     ELSE IF c = 0 THEN [st EXCEPT !.count[p] = 0]
     ELSE CaptureLoopP2(
            CaptureLoopP1(
              Penalize(AddProgress(TrackUsage(Record(Consume(st, p, c), s, p), p),
                                   s, p), p),
              s, p),
            s, p)

\* faulty variant for C28: the write lands with the values of the write before
\* it, as if the two had been reordered
SocketSaveReordered(st, s) ==
  IF st.interrupted THEN st
  ELSE LET a == Await(st)
       IN IF a.interrupted THEN a
          ELSE [a EXCEPT !.db.progress_writes[s] = @ + 1]

\* faulty variant for C27: the socket's progress is not written
SocketSaveSkipped(st, s) == st

\* await socket.save(update_fields=["p1_progress", "p2_progress"])
SocketSave(st, s) ==
  IF st.interrupted THEN st
  ELSE LET a == Await(st)
       IN IF a.interrupted THEN a
          ELSE [a EXCEPT !.db.p1_progress[s] = a.p1_progress[s],
                         !.db.p2_progress[s] = a.p2_progress[s],
                         !.db.progress_writes[s] = @ + 1]

RECURSIVE ServerPlayers(_, _, _, _)
ServerPlayers(st, s, d, i) ==
  IF i > Len(PlayerOrder) THEN st
  ELSE ServerPlayers(ServerPlayer(st, s, PlayerOrder[i], d), s, d, i + 1)

ServerProcess(st, s, d) == SocketSave(ServerPlayers(st, s, d, 1), s)

\* the body of `for player in players` of the standalone loop
YarPlayer(st, s, p, d) ==
  LET c == CountBytes(d, p)
  IN IF st.interrupted THEN st
     ELSE IF c = 0 THEN [st EXCEPT !.count[p] = 0]
     ELSE Penalize(AddProgress(Record(Consume(st, p, c), s, p), s, p), p)

RECURSIVE YarPlayers(_, _, _, _)
YarPlayers(st, s, d, i) ==
  IF i > Len(PlayerOrder) THEN st
  ELSE YarPlayers(YarPlayer(st, s, PlayerOrder[i], d), s, d, i + 1)

\* while factory.p1_progress >= factory.threshold: ... target.score += offset(1)
RECURSIVE FactoryLoopP1(_, _)
FactoryLoopP1(st, s) ==
  IF ~st.interrupted /\ st.p1_progress[s] >= threshold[s]
  THEN FactoryLoopP1([st EXCEPT !.p1_progress[s] = @ - threshold[s],
                                !.target_score[s] = @ + get_player_offset(1),
                                !.captures[s][1] = @ + 1], s)
  ELSE st

\* while factory.p2_progress >= factory.threshold: ... target.score += offset(2)
RECURSIVE FactoryLoopP2(_, _)
FactoryLoopP2(st, s) ==
  IF ~st.interrupted /\ st.p2_progress[s] >= threshold[s]
  THEN FactoryLoopP2([st EXCEPT !.p2_progress[s] = @ - threshold[s],
                                !.target_score[s] = @ + get_player_offset(2),
                                !.captures[s][2] = @ + 1], s)
  ELSE st

\* faulty variant for C9: the target file is left as it was
WriteTargetFileSkipped(st, s) == st

\* with open(target.file_path, "w") as f: f.write(str(target.score))
WriteTargetFile(st, s) ==
  IF st.interrupted THEN st
  ELSE [st EXCEPT !.target_file[s] = Str(st.target_score[s])]

YarProcess(st, s, d) ==
  WriteTargetFile(FactoryLoopP2(FactoryLoopP1(YarPlayers(st, s, d, 1), s), s), s)

\* the 1-second tick of the standalone loop, for the players from index i on
RECURSIVE YarTick(_, _, _)
YarTick(st, total_score, i) ==
  IF i > Len(PlayerOrder) THEN st
  ELSE LET p == PlayerOrder[i]
           delta == total_score * get_player_offset(p)
       IN YarTick(IF delta # 0 /\ ~st.interrupted
                  THEN EventCreate(PlayerSave([st EXCEPT !.score[p] = @ + delta], p),
                                   p, "Tick", delta)
                  ELSE st,
                  total_score, i + 1)

\* ---------------------------------------------------------------- start-up
\* faulty variant for C18: what is at the path is left there
UnlinkNothing(pth, s) == pth

\* if os.path.exists(socket_path): os.unlink(socket_path)
Unlink(pth, s) == IF pth[s] # "none" THEN [pth EXCEPT ![s] = "none"] ELSE pth

\* for idx in range(1, len(sockets) + 1): the removal of what is at the paths,
\* for the sockets from i up to (not including) stop
RECURSIVE CleanupFrom(_, _, _)
CleanupFrom(pth, i, stop) ==
  IF i \notin Sockets \/ i >= stop THEN pth
  ELSE CleanupFrom(Unlink(pth, i), i + 1, stop)

\* finally: for s in socket_files: s.close()
CloseAll ==
  /\ sock_open' = [s \in Sockets |-> FALSE]
  /\ close_calls' = [s \in Sockets |-> IF sock_open[s] THEN close_calls[s] + 1
                                       ELSE close_calls[s]]

\* run_socket_server is left from inside its `try`: the sockets are closed, what
\* they had received and not delivered is dropped with them, and the function's
\* locals (the buckets, the clock, the usage window, the datagram at hand) are
\* no more; they are shown as they were on entry
Leave(why) ==
  /\ CloseAll
  /\ pc' = "done"
  /\ exit_reason' = why
  /\ queue' = [s \in Sockets |-> <<>>]
  /\ readable' = <<>>
  /\ data' = <<>>
  /\ dt' = 0
  /\ since_window' = 0
  /\ bytes_available' = [p \in Players |-> BytesMax * Res]
  /\ bandwidth_usage' = [p \in Players |-> 0]
  /\ count' = [p \in Players |-> 0]
  /\ allowed' = [p \in Players |-> 0]
  /\ excess' = [p \in Players |-> 0]

\* the part of the state that outlives the function: the model objects and the
\* database
InstallLasting(st) ==
  /\ p1_progress' = st.p1_progress
  /\ p2_progress' = st.p2_progress
  /\ score' = st.score
  /\ target_score' = st.target_score
  /\ target_file' = st.target_file
  /\ events' = st.events
  /\ captures' = st.captures
  /\ db' = st.db
  /\ ledger' = st.ledger
  /\ applied' = IF st.interrupted THEN applied ELSE Snapshot(st)

\* the ledger of a run that starts on these values
LedgerOf(p1, p2, sc) ==
  [ start |-> [p1_progress |-> p1, p2_progress |-> p2, score |-> sc],
    iterations |-> <<>> ]

\* setup_game has not been called
NotCalled ==
  [ pc |-> "none", num_sockets |-> 0, pids |-> <<>>,
    config |-> [socket_threshold |-> SocketThreshold,
                player_bandwidth |-> PlayerBandwidth],
    game |-> 0, sockets |-> <<>>, players |-> <<>> ]

\* ------------------------------------------------------------------- Init
\* The state on entry to run_socket_server: the game's rows as loaded from the
\* database, full buckets, no socket bound yet, and at each socket's path either
\* nothing or the file an earlier run has left.
InitWith(start, thresholds) ==
  /\ program \in {"server", "yar"}
  /\ pc = IF program = "server" THEN "cleanup" ELSE "bind"
  /\ iter = 0
  /\ sent = 0
  /\ queue = [s \in Sockets |-> <<>>]
  /\ sock_open = [s \in Sockets |-> FALSE]
  /\ readable = <<>>
  /\ data = <<>>
  /\ dt = 0
  /\ bytes_available = [p \in Players |-> BytesMax * Res]
  /\ since_window = 0
  /\ bandwidth_usage = [p \in Players |-> 0]
  /\ current_bandwidth = [p \in Players |-> 0]
  /\ count = [p \in Players |-> 0]
  /\ allowed = [p \in Players |-> 0]
  /\ excess = [p \in Players |-> 0]
  /\ \E v \in start :
       /\ p1_progress = [s \in Sockets |-> v]
       /\ p2_progress = [s \in Sockets |-> v]
  /\ threshold = [s \in Sockets |-> thresholds]
  /\ bytes_max = [p \in Players |-> BytesMax]
  /\ refill_rate = [p \in Players |-> RefillRate(p)]
  /\ score = [p \in Players |-> 0]
  /\ target_score = [s \in Sockets |-> 0]
  /\ target_file = [s \in Sockets |-> Str(0)]
  /\ events = <<>>
  /\ captures = [s \in Sockets |-> [p \in Players |-> 0]]
  /\ db = [ score |-> score, p1_progress |-> p1_progress,
            p2_progress |-> p2_progress, target_score |-> target_score,
            progress_writes |-> [s \in Sockets |-> 0] ]
  /\ path \in [Sockets -> {"none", "stale"}]
  /\ close_calls = [s \in Sockets |-> 0]
  /\ exit_reason = "none"
  /\ applied = [ score |-> score, p1_progress |-> p1_progress,
                 p2_progress |-> p2_progress, target_score |-> target_score,
                 events |-> 0 ]
  /\ tui = "off"
  /\ last_event_ids = [p \in Players |-> 0]
  /\ received = [p \in Players |-> <<>>]
  /\ setup = NotCalled
  /\ ledger = LedgerOf(p1_progress, p2_progress, score)

Init == InitWith(StartProgress, SocketThreshold)

\* ---------------------------------------------------------------- actions
\* the variables of the game and of the iteration, untouched by start-up and exit
game == << iter, sent, queue, readable, data, dt, bytes_available, since_window,
           bandwidth_usage, current_bandwidth, count, allowed, excess, p1_progress,
           p2_progress, settings, score, target_score, target_file, events,
           captures, db, applied, ledger >>

\* what a way out of the loop leaves as it is
lasting == << iter, sent, current_bandwidth, p1_progress, p2_progress, settings,
              score, target_score, target_file, events, captures, db, applied,
              ledger >>

\* package server: the removal of what earlier runs left at the sockets' paths
Cleanup ==
  /\ program = "server"
  /\ pc = "cleanup"
  /\ path' = CleanupFrom(path, 1, Cardinality(Sockets) + 1)
  /\ pc' = "bind"
  /\ UNCHANGED << program, observer, setup, game, sock_open, close_calls, exit_reason >>

\* package server: os.unlink raises for socket k (not permitted, a directory):
\* the error leaves run_socket_server
CleanupFails(k) ==
  /\ program = "server"
  /\ pc = "cleanup"
  /\ CleanupFrom(path, 1, k)[k] # "none"
  /\ path' = CleanupFrom(path, 1, k)
  /\ pc' = "failed"
  /\ exit_reason' = "startup"
  /\ UNCHANGED << program, observer, setup, game, sock_open, close_calls >>

\* a bind on a path where something is raises (address in use)
CanBind(pth, s) == pth[s] = "none"

\* socket_file.bind(socket_path) for every socket: each creates its file
BindAll ==
  /\ pc = "bind"
  /\ \A s \in Sockets : CanBind(path, s)
  /\ sock_open' = [s \in Sockets |-> TRUE]
  /\ path' = [s \in Sockets |-> "socket"]
  /\ pc' = "head"
  /\ UNCHANGED << program, observer, setup, game, close_calls, exit_reason >>

\* the bind of socket k raises, because of what is at its path or for a reason
\* of its own (no directory, no permission): the sockets before k are bound, the
\* error leaves run_socket_server before its `try`
BindFails(k) ==
  /\ pc = "bind"
  /\ \A s \in Sockets : s < k => CanBind(path, s)
  /\ sock_open' = [s \in Sockets |-> s < k]
  /\ path' = [s \in Sockets |-> IF s < k THEN "socket" ELSE path[s]]
  /\ pc' = "failed"
  /\ exit_reason' = "startup"
  /\ UNCHANGED << program, observer, setup, game, close_calls >>

\* a client's sendto() on a bound socket.  The loop looks at its sockets only in
\* select, so a datagram sent at any other moment is first seen exactly as one
\* sent while the loop waits in select: sends are placed there.
Send(s, d) ==
  /\ pc = "select"
  /\ sock_open[s]
  /\ sent < MaxSent
  /\ sent' = sent + 1
  /\ queue' = [queue EXCEPT ![s] = Append(@, d)]
  /\ UNCHANGED << program, observer, setup, pc, iter, readable, data, dt, bytes_available,
                  since_window, bandwidth_usage, current_bandwidth, count, allowed,
                  excess, p1_progress, p2_progress, settings, score, target_score,
                  target_file, events, captures, db, applied, ledger,
                  lifecycle >>

WindowDue(elapsed) == since_window + elapsed >= WindowSeconds * TicksPerSecond

\* faulty variant for C23: the window reset also halves the buckets' capacity
ServerHeadShrinking(elapsed) ==
  /\ program = "server"
  /\ pc = "head"
  /\ iter < MaxIter
  /\ iter' = iter + 1
  /\ dt' = elapsed
  /\ ledger' = NewIteration(ledger, elapsed)
  /\ IF WindowDue(elapsed)
     THEN /\ current_bandwidth' = bandwidth_usage
          /\ bandwidth_usage' = [p \in Players |-> 0]
          /\ since_window' = 0
          /\ bytes_max' = [p \in Players |-> bytes_max[p] \div 2]
     ELSE /\ since_window' = since_window + elapsed
          /\ UNCHANGED << current_bandwidth, bandwidth_usage, bytes_max >>
  /\ bytes_available' = [p \in Players |-> Refill(bytes_available[p], p, elapsed)]
  /\ pc' = "select"
  /\ UNCHANGED << program, observer, setup, sent, queue, readable, data, count, allowed,
                  excess, p1_progress, p2_progress, threshold, refill_rate, score,
                  target_score, target_file, events, captures, db, applied, lifecycle >>

\* package server, top of the loop body: dt, the usage window, the refill
ServerHead(elapsed) ==
  /\ program = "server"
  /\ pc = "head"
  /\ iter < MaxIter
  /\ iter' = iter + 1
  /\ dt' = elapsed
  /\ ledger' = NewIteration(ledger, elapsed)
  /\ IF WindowDue(elapsed)
     THEN /\ current_bandwidth' = bandwidth_usage
          /\ bandwidth_usage' = [p \in Players |-> 0]
          /\ since_window' = 0
     ELSE /\ since_window' = since_window + elapsed
          /\ UNCHANGED << current_bandwidth, bandwidth_usage >>
  /\ bytes_available' = [p \in Players |-> Refill(bytes_available[p], p, elapsed)]
  /\ pc' = "select"
  /\ UNCHANGED << program, observer, setup, sent, queue, readable, data, count, allowed,
                  excess, p1_progress, p2_progress, settings, score, target_score,
                  target_file, events, captures, db, applied, lifecycle >>

\* package server: player.save(update_fields=["current_bandwidth"]) raises (the
\* Player model of models.py declares no such field, so the ORM may refuse the
\* update); the error leaves the loop through `finally`, which closes the sockets
ServerHeadSaveFails(elapsed) ==
  /\ program = "server"
  /\ pc = "head"
  /\ iter < MaxIter
  /\ WindowDue(elapsed)
  /\ iter' = iter + 1
  /\ current_bandwidth' =
       [current_bandwidth EXCEPT ![PlayerOrder[1]] = bandwidth_usage[PlayerOrder[1]]]
  /\ ledger' = NewIteration(ledger, elapsed)
  /\ Leave("raised")
  /\ UNCHANGED << program, observer, setup, sent, p1_progress, p2_progress, settings, score,
                  target_score, target_file, events, captures, db, applied, path >>

\* the bucket refill of the standalone loop
YarRefilled(elapsed) ==
  [Cur EXCEPT !.bytes_available =
                [p \in Players |-> Refill(bytes_available[p], p, elapsed)],
              !.ledger = NewIteration(ledger, elapsed)]

\* standalone loop, top of the loop body: dt, the refill, the 1-second tick
YarHead(elapsed) ==
  /\ program = "yar"
  /\ pc = "head"
  /\ iter < MaxIter
  /\ iter' = iter + 1
  /\ dt' = elapsed
  /\ IF WindowDue(elapsed)
     THEN /\ \E st \in {YarTick(YarRefilled(elapsed),
                                  SumOver(target_score, Sockets), 1)} : Install(st)
          /\ since_window' = 0
     ELSE /\ \E st \in {YarRefilled(elapsed)} : Install(st)
          /\ since_window' = since_window + elapsed
  /\ pc' = "select"
  /\ UNCHANGED << program, observer, setup, sent, queue, readable, data,
                  current_bandwidth, settings, lifecycle >>

\* standalone loop: the await number k of the 1-second tick raises
YarHeadInterrupted(elapsed, k) ==
  /\ program = "yar"
  /\ pc = "head"
  /\ iter < MaxIter
  /\ WindowDue(elapsed)
  /\ \E st \in {YarTick([YarRefilled(elapsed) EXCEPT !.awaits_left = k],
                          SumOver(target_score, Sockets), 1)} :
       /\ st.interrupted
       /\ InstallLasting(st)
  /\ iter' = iter + 1
  /\ Leave("raised")
  /\ UNCHANGED << program, observer, setup, sent, current_bandwidth, settings, path >>

AfterReadable == IF program = "server" THEN "head" ELSE "save"

\* readable, _, _ = select.select(socket_files, [], [], tick_interval)
Select ==
  /\ pc = "select"
  /\ readable' = SocketsFrom(1)
  /\ pc' = IF readable' = <<>> THEN AfterReadable ELSE "process"
  /\ UNCHANGED << program, observer, setup, iter, sent, queue, data, dt, bytes_available,
                  since_window, bandwidth_usage, current_bandwidth, count, allowed,
                  excess, p1_progress, p2_progress, settings, score, target_score,
                  target_file, events, captures, db, applied, ledger,
                  lifecycle >>

\* the processing of datagram d of socket s by the running program
Process(st, s, d) ==
  IF program = "server" THEN ServerProcess(st, s, d) ELSE YarProcess(st, s, d)

\* one pass of `for socket_file in readable`: recvfrom and the whole processing
ProcessDatagram ==
  /\ pc = "process"
  /\ readable # <<>>
  /\ LET s == Head(readable)
         d == Head(queue[s])
     IN /\ queue' = [queue EXCEPT ![s] = Tail(@)]
        /\ data' = d
        /\ \E st \in {Process(Cur, s, d)} : Install(st)
  /\ readable' = Tail(readable)
  /\ pc' = IF readable' = <<>> THEN AfterReadable ELSE "process"
  /\ UNCHANGED << program, observer, setup, iter, sent, dt, since_window,
                  current_bandwidth, settings, lifecycle >>

\* the await number k of the processing of a datagram raises; `finally` closes
\* the sockets
DatagramInterrupted(k) ==
  /\ pc = "process"
  /\ readable # <<>>
  /\ LET s == Head(readable)
         d == Head(queue[s])
     IN \E st \in {Process([Cur EXCEPT !.awaits_left = k], s, d)} :
          /\ st.interrupted
          /\ InstallLasting(st)
  /\ Leave("raised")
  /\ UNCHANGED << program, observer, setup, iter, sent, current_bandwidth, settings, path >>

\* standalone loop, end of the loop body: the two asyncio.gather of saves
YarSaveAll ==
  /\ program = "yar"
  /\ pc = "save"
  /\ db' = [db EXCEPT !.p1_progress = p1_progress, !.p2_progress = p2_progress,
                      !.target_score = target_score,
                      !.progress_writes = [s \in Sockets |-> @[s] + 1]]
  /\ pc' = "head"
  /\ UNCHANGED << program, observer, setup, iter, sent, queue, readable, data, dt,
                  bytes_available, since_window, bandwidth_usage, current_bandwidth,
                  count, allowed, excess, p1_progress, p2_progress, settings, score,
                  target_score, target_file, events, captures, applied, ledger,
                  lifecycle >>

\* standalone loop: the first asyncio.gather raises before a save has completed
YarSaveAllInterrupted ==
  /\ program = "yar"
  /\ pc = "save"
  /\ Leave("raised")
  /\ UNCHANGED << program, observer, setup, lasting, path >>

\* KeyboardInterrupt while the loop waits in select, where it spends its time
\* between the awaits: `except KeyboardInterrupt`, then `finally` closes the
\* sockets
Cancel ==
  /\ pc = "select"
  /\ Leave("interrupt")
  /\ UNCHANGED << program, observer, setup, lasting, path >>

\* the loop and its clients, with the elapsed times of the iterations drawn from D
\* and the datagrams sent from T
NextOver(D, T) ==
  \/ Cleanup
  \/ \E k \in Sockets : CleanupFails(k)
  \/ BindAll
  \/ \E k \in Sockets : BindFails(k)
  \/ \E sd \in T : Send(sd[1], sd[2])
  \/ \E elapsed \in D : ServerHead(elapsed)
  \/ \E elapsed \in D : ServerHeadSaveFails(elapsed)
  \/ \E elapsed \in D : YarHead(elapsed)
  \/ \E elapsed \in D, k \in 0..MaxAwait : YarHeadInterrupted(elapsed, k)
  \/ Select
  \/ ProcessDatagram
  \/ \E k \in 0..MaxAwait : DatagramInterrupted(k)
  \/ YarSaveAll
  \/ YarSaveAllInterrupted
  \/ Cancel

Next == NextOver(DtSet, Traffic)

Spec == Init /\ [][Next]_vars

\* the same loop on a machine whose wall clock is never set back
NextMonotonic == NextOver({e \in DtSet : e >= 0}, Traffic)

SpecMonotonic == Init /\ [][NextMonotonic]_vars

\* the same loop on a new game with threshold 5
InitScenario == InitWith({0}, ScenarioThreshold)

NextScenario == NextOver(DtSet, ScenarioTraffic)

SpecScenario == InitScenario /\ [][NextScenario]_vars

\* ------------------------------------------------------------- a second run
\* faulty variant for C31: the bucket starts empty
BandwidthManagerEmpty(p) ==
  [ bytes_available |-> 0, bytes_max |-> BytesMax, refill_rate |-> RefillRate(p) ]

\* BandwidthManager(bytes_available=10240, bytes_max=10240,
\*                  refill_rate=p.bandwidth * 1024)
BandwidthManagerNew(p) ==
  [ bytes_available |-> BytesMax * Res, bytes_max |-> BytesMax,
    refill_rate |-> RefillRate(p) ]

\* the program is started again on the same game (`server --game N`) after the
\* run before it has ended: run_socket_server loads the game's rows from the
\* database and builds its locals anew; the files the earlier run left at the
\* sockets' paths are still there
Rerun ==
  /\ pc \in {"done", "failed"}
  /\ iter < MaxIter
  /\ pc' = IF program = "server" THEN "cleanup" ELSE "bind"
  /\ sock_open' = [s \in Sockets |-> FALSE]
  /\ close_calls' = [s \in Sockets |-> 0]
  /\ exit_reason' = "none"
  /\ p1_progress' = db.p1_progress
  /\ p2_progress' = db.p2_progress
  /\ score' = db.score
  /\ target_score' = db.target_score
  /\ current_bandwidth' = [p \in Players |-> 0]
  /\ bytes_available' = [p \in Players |-> BandwidthManagerNew(p).bytes_available]
  /\ bytes_max' = [p \in Players |-> BandwidthManagerNew(p).bytes_max]
  /\ refill_rate' = [p \in Players |-> BandwidthManagerNew(p).refill_rate]
  /\ applied' = [ score |-> db.score, p1_progress |-> db.p1_progress,
                  p2_progress |-> db.p2_progress, target_score |-> db.target_score,
                  events |-> Len(events) ]
  /\ ledger' = LedgerOf(db.p1_progress, db.p2_progress, db.score)
  /\ captures' = [s \in Sockets |-> [p \in Players |-> 0]]
  /\ UNCHANGED << program, observer, setup, iter, sent, queue, readable, data, dt,
                  since_window, bandwidth_usage, count, allowed, excess, threshold,
                  target_file, events, db, path >>

NextRerun ==
  \/ Next
  \/ Rerun

SpecRerun == Init /\ [][NextRerun]_vars

\* ---------------------------------------------------------------- the observer
\* the events the observer's first query leaves out are those older than this many
\* ids before the player's latest event
InitialDisplay == 30

\* the datagrams sent while an observer watches: one that makes 50 captures, and
\* short ones of either player
ObserverTraffic ==
  { <<1, <<Run(1, 250)>> >>, <<1, <<Run(1, 12)>> >>, <<2, <<Run(2, 12)>> >> }

\* Event.filter(player__player_id = p, id__gt = after).order_by("id"): the ids
RECURSIVE EventIdsFrom(_, _, _)
EventIdsFrom(p, after, i) ==
  IF i > Len(events) THEN <<>>
  ELSE IF events[i].player = p /\ events[i].id >= after
       THEN <<events[i].id>> \o EventIdsFrom(p, after, i + 1)
       ELSE EventIdsFrom(p, after, i + 1)

RECURSIVE EventIdsAfter(_, _, _)
EventIdsAfter(p, after, i) ==
  IF i > Len(events) THEN <<>>
  ELSE IF events[i].player = p /\ events[i].id > after
       THEN <<events[i].id>> \o EventIdsAfter(p, after, i + 1)
       ELSE EventIdsAfter(p, after, i + 1)

\* Event.filter(player__player_id = p).order_by("-id").first(): its id, 0 for None
RECURSIVE LatestEventId(_, _)
LatestEventId(p, i) ==
  IF i = 0 THEN 0
  ELSE IF events[i].player = p THEN events[i].id ELSE LatestEventId(p, i - 1)

\* for event in events: add_event(event); if event.id > cursor: cursor = event.id
RECURSIVE Track(_, _)
Track(cursor, ids) ==
  IF ids = <<>> THEN cursor
  ELSE Track(IF Head(ids) > cursor THEN Head(ids) ELSE cursor, Tail(ids))

\* the first query of init_db for player p
RecentEvents(p) ==
  LET latest == LatestEventId(p, Len(events))
  IN  EventIdsAfter(p, IF latest = 0 THEN 0
                          ELSE IF latest - InitialDisplay > 0
                               THEN latest - InitialDisplay ELSE 0, 1)

loop == << program, pc, iter, sent, queue, sock_open, readable, data, dt,
           bytes_available, since_window, bandwidth_usage, current_bandwidth,
           count, allowed, excess, p1_progress, p2_progress, settings, score,
           target_score, target_file, events, captures, db,
           path, close_calls, exit_reason, applied, ledger >>

\* init_db, called once when the observer is mounted
TuiInitDb ==
  /\ tui = "off"
  /\ tui' = "on"
  /\ received' = [p \in Players |-> received[p] \o RecentEvents(p)]
  /\ last_event_ids' = [p \in Players |-> Track(last_event_ids[p], RecentEvents(p))]
  /\ UNCHANGED << loop, setup >>

\* update_game_state, called by the timer every 0.1 s
TuiUpdateGameState ==
  /\ tui = "on"
  /\ received' = [p \in Players |->
                    received[p] \o EventIdsAfter(p, last_event_ids[p], 1)]
  /\ last_event_ids' = [p \in Players |->
                    Track(last_event_ids[p], EventIdsAfter(p, last_event_ids[p], 1))]
  /\ UNCHANGED << tui, loop, setup >>

NextObserver ==
  \/ NextOver(DtSet, ObserverTraffic)
  \/ TuiInitDb
  \/ TuiUpdateGameState

SpecObserver == InitScenario /\ [][NextObserver]_vars

\* -------------------------------------------------------------- setup_game
\* the arguments, the Config rows and the results of find_players that
\* setup_game is run on
MaxSockets == 3
ConfigThresholds == {1, ScenarioThreshold, SocketThreshold}
ConfigBandwidths == {1, PlayerBandwidth, 64}
FoundPids == { <<>>, <<11, 12>> }

\* the rows of the games created before: none, or one game that has been played
EarlierSockets(g) ==
  [i \in 1..g |-> [game |-> i, index |-> 1, p1_progress |-> 50, p2_progress |-> 7,
                   threshold |-> SocketThreshold]]
EarlierPlayers(g) ==
  [i \in 1..(2 * g) |-> [game |-> (i + 1) \div 2, player_id |-> 2 - (i % 2),
                         pid |-> 0, bandwidth |-> PlayerBandwidth, score |-> 42]]

\* faulty variant for C32: the socket gets the default threshold, not the
\* configured one
SocketRowDefault(g, i, config) ==
  [ game |-> g, index |-> i, p1_progress |-> 0, p2_progress |-> 0,
    threshold |-> SocketThreshold ]

\* Socket.create(game, socket_path=.../yar-00i, p1_progress=0, p2_progress=0,
\*               threshold=config.socket_threshold)
SocketRow(g, i, config) ==
  [ game |-> g, index |-> i, p1_progress |-> 0, p2_progress |-> 0,
    threshold |-> config.socket_threshold ]

\* Player.create(game, player_id, pid, ..., bandwidth=config.player_bandwidth):
\* the score is the field's default, 0; the pid is None (0) without two players
\* found
PlayerRow(g, player_id, pids, config) ==
  [ game |-> g, player_id |-> player_id,
    pid |-> IF Len(pids) >= player_id THEN pids[player_id] ELSE 0,
    bandwidth |-> config.player_bandwidth, score |-> 0 ]

running == << loop, observer >>

\* setup_game(num_sockets) is called: Config.first() and Game().create()
SetupGame(n, threshold_set, bandwidth_set, pids, earlier) ==
  /\ setup.pc = "none"
  /\ setup' = [ pc |-> "sockets", num_sockets |-> n, pids |-> pids,
                config |-> [socket_threshold |-> threshold_set,
                            player_bandwidth |-> bandwidth_set],
                game |-> earlier + 1,
                sockets |-> EarlierSockets(earlier),
                players |-> EarlierPlayers(earlier) ]
  /\ UNCHANGED running

\* one pass of `for i in range(1, num_sockets + 1)`
SetupSocket ==
  /\ setup.pc = "sockets"
  /\ LET created == Cardinality({i \in DOMAIN setup.sockets :
                                   setup.sockets[i].game = setup.game})
     IN /\ created < setup.num_sockets
        /\ setup' = [setup EXCEPT !.sockets =
                       Append(@, SocketRow(setup.game, created + 1, setup.config))]
  /\ UNCHANGED running

\* the loop over the sockets is over: the prompts are copied, the pids taken
SetupSocketsDone ==
  /\ setup.pc = "sockets"
  /\ Cardinality({i \in DOMAIN setup.sockets : setup.sockets[i].game = setup.game})
       >= setup.num_sockets
  /\ setup' = [setup EXCEPT !.pc = "player1"]
  /\ UNCHANGED running

\* the two Player.create, in turn
SetupPlayer(player_id) ==
  /\ setup.pc = IF player_id = 1 THEN "player1" ELSE "player2"
  /\ setup' = [setup EXCEPT
                 !.players = Append(@, PlayerRow(setup.game, player_id,
                                                 setup.pids, setup.config)),
                 !.pc = IF player_id = 1 THEN "player2" ELSE "returned"]
  /\ UNCHANGED running

\* one of the awaited creations raises: setup_game is left where it is
SetupRaises ==
  /\ setup.pc \in {"sockets", "player1", "player2"}
  /\ setup' = [setup EXCEPT !.pc = "raised"]
  /\ UNCHANGED running

NextSetup ==
  \/ \E n \in 0..MaxSockets, th \in ConfigThresholds, bw \in ConfigBandwidths,
        pids \in FoundPids, earlier \in 0..1 : SetupGame(n, th, bw, pids, earlier)
  \/ SetupSocket
  \/ SetupSocketsDone
  \/ \E player_id \in Players : SetupPlayer(player_id)
  \/ SetupRaises

InitSetup == program = "server" /\ InitWith({0}, SocketThreshold)

SpecSetup == InitSetup /\ [][NextSetup]_vars

\* ------------------------------------------- setup_game of the standalone loop
\* the games the standalone program is run on in one history
MaxGames == 2
\* for i in range(4): the targets, then the factories, of a new game
NumTargets == 4
NumFactories == 4

\* faulty variant for C39: setup_game creates the factories before the targets
SetupOrderFactoriesFirst == <<"factories", "targets", "players">>

\* the order in which setup_game of yar.py creates the rows of a game
SetupOrder == <<"targets", "factories", "players">>

RowsWanted(kind) ==
  IF kind = "targets" THEN NumTargets
  ELSE IF kind = "factories" THEN NumFactories ELSE Cardinality(Players)

\* Target.filter(game=game_id).all(), Factory.filter(game=game_id).all()
RowsOf(table, g) == SelectSeq(table, LAMBDA r : r.game = g)

\* target_cycle[idx % len(target_cycle)] if target_cycle else None, for the
\* factories of game g in the order of enumerate(factories); None is 0, a target
\* is its position in target_cycle
PairedTargets(g) ==
  LET target_cycle == RowsOf(setup.targets, g)
      factories == RowsOf(setup.factories, g)
  IN [idx \in 1..Len(factories) |->
        IF target_cycle # <<>> THEN ((idx - 1) % Len(target_cycle)) + 1 ELSE 0]

\* the standalone program is started without --game: Game().create()
YarSetupGame ==
  /\ setup.pc \in {"none", "returned", "raised", "ended"}
  /\ setup.game < MaxGames
  /\ setup' = [ pc |-> "setup", game |-> setup.game + 1, phase |-> 1,
                targets |-> IF setup.pc = "none" THEN <<>> ELSE setup.targets,
                factories |-> IF setup.pc = "none" THEN <<>> ELSE setup.factories,
                players |-> IF setup.pc = "none" THEN <<>> ELSE setup.players,
                run |-> 0, paired |-> <<>>, asserted |-> "none" ]
  /\ UNCHANGED running

\* one awaited creation of setup_game: target.save(), Factory.create(...) or
\* Player.create(...), in the order of the code
YarSetupCreate ==
  /\ setup.pc = "setup"
  /\ LET kind == SetupOrder[setup.phase]
         row == [game |-> setup.game]
         made == Len(RowsOf(setup[kind], setup.game)) + 1
         last == made >= RowsWanted(kind)
     IN setup' = [setup EXCEPT
                    ![kind] = Append(@, row),
                    !.phase = IF last /\ setup.phase < Len(SetupOrder)
                              THEN @ + 1 ELSE @,
                    !.pc = IF last /\ setup.phase = Len(SetupOrder)
                           THEN "returned" ELSE @]
  /\ UNCHANGED running

\* an awaited creation raises, or the program is interrupted: the game stays as
\* far as it has been set up
YarSetupRaises ==
  /\ setup.pc = "setup"
  /\ setup' = [setup EXCEPT !.pc = "raised"]
  /\ UNCHANGED running

\* run_socket_server(g): after setup_game for the new game, or for any game of
\* the Game table when the program is started with --game g; the factories are
\* bound and paired with the targets
YarRunSocketServer(g) ==
  /\ \/ setup.pc = "returned" /\ g = setup.game
     \/ setup.pc \in {"returned", "raised", "ended"} /\ g \in 1..setup.game
  /\ setup' = [setup EXCEPT !.pc = "running", !.run = g,
                            !.paired = PairedTargets(g), !.asserted = "none"]
  /\ UNCHANGED running

\* a datagram is received on the socket of factory idx: assert target is not None
YarReceive(idx) ==
  /\ setup.pc = "running"
  /\ idx \in DOMAIN setup.paired
  /\ setup' = [setup EXCEPT !.asserted = IF setup.paired[idx] # 0 THEN "held"
                                         ELSE "failed",
                            !.pc = IF setup.paired[idx] # 0 THEN @ ELSE "ended"]
  /\ UNCHANGED running

\* the loop is left
YarRunEnds ==
  /\ setup.pc = "running"
  /\ setup' = [setup EXCEPT !.pc = "ended"]
  /\ UNCHANGED running

NextYarSetup ==
  \/ YarSetupGame
  \/ YarSetupCreate
  \/ YarSetupRaises
  \/ \E g \in 1..MaxGames : YarRunSocketServer(g)
  \/ \E idx \in 1..NumFactories : YarReceive(idx)
  \/ YarRunEnds

InitYarSetup == program = "yar" /\ InitWith({0}, SocketThreshold)

SpecYarSetup == InitYarSetup /\ [][NextYarSetup]_vars

\* ================================================================= claims
\* the step is ProcessDatagram (a datagram processed to its end), on this socket
Processing == pc = "process" /\ pc' # "done"
CurrentSocket == Head(readable)

Progress(s, p) == IF p = 1 THEN p1_progress[s] ELSE p2_progress[s]
ProgressNext(s, p) == IF p = 1 THEN p1_progress'[s] ELSE p2_progress'[s]

\* ----------------------------------------------------------------- C1
\* C1: in every reachable state each player's bucket holds at least 0 and at
\* most bytes_max tokens.
C1_BucketWithinCapacity ==
  \A p \in Players :
    0 <= bytes_available[p] /\ bytes_available[p] <= BytesMax * Res

\* ----------------------------------------------------------------- C2
\* C2: for every consume of n >= 1 attributed bytes the locals satisfy
\* allowed + excess = n, allowed >= 0 and excess >= 0.
C2_ConsumeSplitsCount ==
  \A p \in Players :
    count[p] >= 1 =>
      /\ allowed[p] + excess[p] = count[p]
      /\ allowed[p] >= 0
      /\ excess[p] >= 0

\* ----------------------------------------------------------------- C3
\* int(x) for x given in sub-units, stated without \div: a is x cut toward zero
IsTruncationOf(a, x) ==
  IF x >= 0 THEN a * Res <= x /\ x < (a + 1) * Res
  ELSE (a - 1) * Res < x /\ x <= a * Res

\* C3: a consume of n bytes yields allowed = min(bytes_available, n) cut to an
\* integer, takes exactly allowed from bytes_available, and yields allowed = 0
\* whenever bytes_available is below one whole byte.
C3_ConsumeTakesAllowed ==
  [][Processing =>
       \A p \in Players :
         count'[p] >= 1 =>
           /\ IsTruncationOf(allowed'[p], Min(bytes_available[p], count'[p] * Res))
           /\ bytes_available'[p] = bytes_available[p] - allowed'[p] * Res
           /\ (bytes_available[p] < Res => allowed'[p] = 0)]_vars

\* ----------------------------------------------------------------- C4
\* C4: the head of an iteration sets every bucket to
\* min(capacity, old available + rate * dt), rate being bandwidth * 1024 bytes
\* per second and dt the time elapsed since the previous iteration.
C4_RefillClampedToCapacity ==
  [][(pc = "head" /\ pc' = "select") =>
       \A p \in Players :
         LET rate == PlayerBandwidth * 1024
             \* rate * dt in sub-units: dt' ticks of 1/TicksPerSecond second
             gain == (rate * Res * dt') \div TicksPerSecond
             sum == bytes_available[p] + gain
         IN /\ gain * TicksPerSecond = rate * Res * dt'
            /\ bytes_available'[p] = IF sum > BytesMax * Res THEN BytesMax * Res ELSE sum]_vars

\* a second iteration has refilled a drained bucket by a fraction of a byte, and
\* left the other bucket full
C4_Witness ==
  /\ pc = "select"
  /\ dt = 1
  /\ \E p \in Players :
       /\ bytes_available[p] > 0
       /\ bytes_available[p] < Res * PlayerBandwidth
       /\ bytes_available[p] % Res # 0
  /\ \E p \in Players : bytes_available[p] = BytesMax * Res

\* ----------------------------------------------------------------- C5
\* C5: when allowed bytes are credited on a resource whose progress was
\* p < threshold, floor((p + allowed) / threshold) captures are made and the
\* progress left is (p + allowed) mod threshold.
C5_CapturesAreQuotient ==
  [][Processing =>
       \A p \in Players :
         LET s == CurrentSocket
             total == Progress(s, p) + allowed'[p]
         IN (count'[p] >= 1 /\ Progress(s, p) < threshold[s]) =>
              /\ captures'[s][p] - captures[s][p] = total \div threshold[s]
              /\ ProgressNext(s, p) = total % threshold[s]]_vars

\* the example of the claim: threshold 100, progress 0, allowed 250 gives 2
\* captures and leaves progress 50
C5_ExampleReached ==
  \E s \in Sockets, p \in Players :
    /\ threshold[s] = 100
    /\ allowed[p] = 250
    /\ captures[s][p] = 2
    /\ Progress(s, p) = 50
    /\ Len(events) <= 2

\* ----------------------------------------------------------------- C6
\* C6: between datagrams every progress counter of every resource is >= 0 and
\* below the resource's threshold (package server).
C6_ProgressBelowThreshold ==
  program = "server" =>
    \A s \in Sockets, p \in Players :
      0 <= Progress(s, p) /\ Progress(s, p) < threshold[s]

\* ----------------------------------------------------------------- C7
\* the ids of the events appended by the step
NewIds == (Len(events) + 1)..Len(events')

\* the number of times the step took the threshold off player p's progress on
\* socket s: the captures of the step
CapturesOfStep(s, p) ==
  IF count'[p] >= 1
  THEN (Progress(s, p) + allowed'[p] - ProgressNext(s, p)) \div threshold[s]
  ELSE 0

\* the owner's score before the event with id i was applied: the total of the
\* owner's event just before it in the step, or the score before the step
ScoreBefore(i) ==
  IF i - 1 \in NewIds /\ events'[i - 1].player = events'[i].player
  THEN events'[i - 1].new_score
  ELSE score[events'[i].player]

\* In the package server, processing a datagram appends, for each player, one
\* event of source `kind` per capture by that player, each with delta 1 (one
\* point); every appended event records the owner's score right after it, and
\* the last one the owner's score after the step.
CaptureRule(kind) ==
  (Processing /\ program = "server") =>
    /\ \A i \in DOMAIN events : events'[i] = events[i]
    /\ \A p \in Players :
         /\ Cardinality({i \in NewIds : events'[i].player = p
                                        /\ events'[i].source = kind})
              = CapturesOfStep(CurrentSocket, p)
         /\ (\A i \in NewIds : events'[i].player # p) => score'[p] = score[p]
    /\ \A i \in NewIds :
         /\ events'[i].source = kind => events'[i].delta = 1
         /\ events'[i].new_score = ScoreBefore(i) + events'[i].delta
         /\ (i + 1 \notin NewIds \/ events'[i + 1].player # events'[i].player)
              => score'[events'[i].player] = events'[i].new_score

DigitValue(c) ==
  CHOOSE v \in 0..9 : <<"0", "1", "2", "3", "4", "5", "6", "7", "8", "9">>[v + 1] = c

RECURSIVE ParseDigits(_)
ParseDigits(sq) ==
  IF sq = <<>> THEN 0
  ELSE 10 * ParseDigits(SubSeq(sq, 1, Len(sq) - 1)) + DigitValue(sq[Len(sq)])

ParseInt(sq) == IF Head(sq) = "-" THEN -ParseDigits(Tail(sq)) ELSE ParseDigits(sq)

NoPlayerByte(d) == \A i \in DOMAIN d : d[i].n = 0 \/ (d[i].b # 1 /\ d[i].b # 2)

\* C10: processing a datagram none of whose bytes is 1 or 2 changes no score,
\* no progress counter, no bucket and not the event log.
C10_ForeignBytesChangeNothing ==
  [][(Processing /\ NoPlayerByte(data')) =>
       UNCHANGED << score, p1_progress, p2_progress, bytes_available, events >>]_vars

\* a datagram of foreign bytes only has been processed after a datagram that
\* raised events
C10_Witness ==
  /\ data # <<>>
  /\ NoPlayerByte(data)
  /\ pc \in {"head", "save"}
  /\ events # <<>>
  /\ \E s \in Sockets : Progress(s, 1) # Progress(s, 2)

\* ---------------------------------------------------------------- C11
\* the number of bytes of datagram d whose value is v
NumberOf(d, v) ==
  SumOver([i \in DOMAIN d |-> IF d[i].b = v THEN d[i].n ELSE 0], DOMAIN d)

\* datagram d with its bytes of value v taken out
Without(d, v) == SelectSeq(d, LAMBDA r : r.b # v)

\* C11: after a datagram is processed, the count of each player is the number
\* of the datagram's bytes equal to the player's id, and it is the same as for
\* the datagram with the other player's bytes taken out.
C11_CountIsBytesOfPlayer ==
  [][Processing =>
       \A p \in Players :
         /\ count'[p] = NumberOf(data', p)
         /\ \A q \in Players \ {p} : count'[p] = NumberOf(Without(data', q), p)]_vars

\* a datagram mixing 70 bytes of value 1, 105 of value 2 and a foreign byte has
\* been processed
C11_Witness ==
  /\ pc # "done"
  /\ data = <<Run(2, 60), Run(9, 1), Run(1, 70), Run(2, 45)>>
  /\ count[1] = 70
  /\ count[2] = 105

\* ---------------------------------------------------------------- C12
\* C12: a step on the datagram of one socket, carried to its end or interrupted,
\* leaves every other socket's progress counters, captures, target score and
\* target file as they are, in memory and in the database.
C12_OtherResourcesUntouched ==
  [][pc = "process" =>
       \A s \in Sockets \ {CurrentSocket} :
         /\ p1_progress'[s] = p1_progress[s]
         /\ p2_progress'[s] = p2_progress[s]
         /\ captures'[s] = captures[s]
         /\ target_score'[s] = target_score[s]
         /\ target_file'[s] = target_file[s]
         /\ db'.p1_progress[s] = db.p1_progress[s]
         /\ db'.p2_progress[s] = db.p2_progress[s]
         /\ db'.target_score[s] = db.target_score[s]]_vars

\* both sockets have received a datagram in the first iteration, and player 1
\* has captured on both
C12_Witness ==
  /\ iter = 1
  /\ pc \in {"head", "save"}
  /\ sent = 2
  /\ \A s \in Sockets : captures[s][1] >= 1 /\ queue[s] = <<>>

\* ---------------------------------------------------------------- C13
\* the scenario of C13, as far as the package server can be set to it: bandwidth
\* 10 and threshold 5 (the burst capacity is not a setting), and the first
\* datagram read has 12 bytes, all player p's, with p's bucket full and p's
\* progress on the socket 0
TwelveBytesFirst(p) ==
  /\ Processing
  /\ program = "server"
  /\ PlayerBandwidth = 10
  /\ threshold[CurrentSocket] = 5
  /\ data = <<>>
  /\ data' = <<Run(p, 12)>>
  /\ bytes_available[p] = BytesMax * Res
  /\ Progress(CurrentSocket, p) = 0

\* the events the step appended for player p, of the given source
NewEventsOf(p, src) ==
  {i \in NewIds : events'[i].player = p /\ events'[i].source = src}

C14_PenaltyIffExcess ==
  [][Processing =>
       \A p \in Players :
         LET penalised == count'[p] >= 1 /\ excess'[p] > 0
             penalty == IF penalised THEN -(BandwidthPenalty * excess'[p]) ELSE 0
         IN /\ Cardinality(NewEventsOf(p, "BandwidthExceeded"))
                 = IF penalised THEN 1 ELSE 0
            /\ \A i \in NewEventsOf(p, "BandwidthExceeded") :
                 /\ events'[i].delta = penalty
                 /\ events'[i].new_score = score[p] + penalty
            /\ score'[p] = score[p] + penalty + Cardinality(NewEventsOf(p, "Tick"))]_vars

\* the package server has taken 10300 bytes of player 1 on full buckets: a
\* penalty of 60 and 102 captures, and nothing for player 2
C14_Witness ==
  /\ program = "server"
  /\ pc # "done"
  /\ excess[1] = 60
  /\ Len(events) = 103
  /\ events[1] = [id |-> 1, player |-> 1, source |-> "BandwidthExceeded",
                  delta |-> -60, new_score |-> -60]
  /\ score[1] = 42
  /\ score[2] = 0

\* ---------------------------------------------------------------- C15
\* C15: a datagram is processed to its end whatever its excess: the sockets
\* stay open, the loop goes on, and the progress of each player whose bytes
\* were counted grows by allowed, the captures of the step taking whole
\* thresholds off it.
C15_ProgressGrowsByAllowed ==
  [][(pc = "process" /\ exit_reason' # "raised") =>
       /\ pc' \in {"process", "head", "save"}
       /\ sock_open' = sock_open
       /\ queue'[CurrentSocket] = Tail(queue[CurrentSocket])
       /\ \A p \in Players :
            count'[p] >= 1 =>
              ProgressNext(CurrentSocket, p)
                + threshold[CurrentSocket]
                    * (captures'[CurrentSocket][p] - captures[CurrentSocket][p])
              = Progress(CurrentSocket, p) + allowed'[p]]_vars

\* player 1 has been over the limit twice, and the second datagram was credited
\* with what the bucket had left
C15_Witness ==
  /\ pc # "done"
  /\ Cardinality({i \in DOMAIN events : events[i].player = 1
                                        /\ events[i].source = "BandwidthExceeded"}) = 2
  /\ excess[1] > 0
  /\ allowed[1] > 0
  /\ allowed[1] < 10240

\* ---------------------------------------------------------------- C16
\* C16: every step leaves the events recorded so far as they are, in their
\* places, and gives each event it appends an id greater than the id of the
\* event before it (hence than all earlier ids).
C16_EventsAppendOnly ==
  [][/\ Len(events') >= Len(events)
     /\ \A i \in DOMAIN events : events'[i] = events[i]
     /\ \A i \in NewIds : i > 1 => events'[i].id > events'[i - 1].id]_vars

\* the log holds a penalty followed by captures of the same player, and then a
\* second penalty
C16_Witness ==
  /\ Len(events) >= 4
  /\ events[1].source = "BandwidthExceeded"
  /\ events[2].source = "Tick"
  /\ events[Len(events)].source = "BandwidthExceeded"
  /\ events[Len(events)].player = events[1].player
  /\ events[Len(events)].id = Len(events)

\* ---------------------------------------------------------------- C17
\* run_socket_server has been left: from inside the loop, or at start-up
Exited == pc \in {"done", "failed"}

\* C17: once run_socket_server has been left, by a cancellation, by an error in
\* an iteration or by a failing bind at start-up, no socket is open and every
\* socket this run has bound has been closed exactly once.
C17_BoundSocketsClosedOnExit ==
  Exited =>
    \A s \in Sockets :
      /\ ~sock_open[s]
      /\ close_calls[s] = IF path[s] = "socket" THEN 1 ELSE 0

\* ---------------------------------------------------------------- C18
\* C18: the package server leaves its cleanup for the binds only with nothing
\* at any socket's path; a socket is bound only where nothing is at its path;
\* and a start-up that fails (a removal or a bind raising) ends with no
\* iteration started, no datagram read and the game's state, in memory and in
\* the database, as it was loaded.
C18_CleanStartOrNoStart ==
  [][/\ (program = "server" /\ pc = "cleanup" /\ pc' = "bind") =>
          \A s \in Sockets : path'[s] = "none"
     /\ \A s \in Sockets : (~sock_open[s] /\ sock_open'[s]) => path[s] = "none"
     /\ pc' = "failed" =>
          /\ exit_reason' = "startup"
          /\ iter' = 0
          /\ data' = <<>>
          /\ events' = <<>>
          /\ UNCHANGED << score, p1_progress, p2_progress, target_score,
                          target_file, bytes_available, db >>]_vars

\* the package server has removed what was at the first socket's path, and the
\* removal at the second one has raised: no socket is bound, nothing has run
C18_Witness ==
  /\ program = "server"
  /\ pc = "failed"
  /\ path = [s \in Sockets |-> IF s = 1 THEN "none" ELSE "stale"]
  /\ \A s \in Sockets : ~sock_open[s]
  /\ iter = 0

\* ---------------------------------------------------------------- C19
\* C19: an awaited persistence call that raises does not end the loop.
C19_LoopSurvivesPersistenceFailure ==
  exit_reason = "raised" => pc \in {"head", "select", "process", "save"}

\* ---------------------------------------------------------------- C20
\* C20: when the loop has been ended by a cancellation (KeyboardInterrupt in
\* select, or the task's cancellation delivered at an await), every socket is
\* closed and the database holds the scores, the progress counters, the target
\* scores and the events as they were in memory after the last datagram
\* processed in full.
C20_CancelledStateIsConsistent ==
  (pc = "done" /\ exit_reason \in {"interrupt", "raised"}) =>
    /\ \A s \in Sockets : ~sock_open[s]
    /\ db.score = applied.score
    /\ db.p1_progress = applied.p1_progress
    /\ db.p2_progress = applied.p2_progress
    /\ program = "yar" => db.target_score = applied.target_score
    /\ Len(events) = applied.events

\* ---------------------------------------------------------------- C21
\* what the database holds of the game agrees with the model objects in memory
PersistedIsCurrent ==
  /\ db.score = score
  /\ db.p1_progress = p1_progress
  /\ db.p2_progress = p2_progress
  /\ db.target_score = target_score

\* C21: when the processing of a datagram writes to the database (a score, a
\* progress counter, an event), nothing of the datagrams processed before it is
\* still missing there: the database agreed with the memory when the processing
\* began.
C21_EarlierEffectsPersistedFirst ==
  [][(pc = "process" /\ (db' # db \/ events' # events)) => PersistedIsCurrent]_vars

\* ---------------------------------------------------------------- C22
\* The capture loop of the package server taken one pass at a time, for sockets
\* created under any threshold the Config table can hold (socket_threshold is an
\* IntField with no validator).  The traffic is made of player 1's bytes, so that
\* the loop at hand is `while socket.p1_progress >= socket.threshold and
\* player.player_id == 1`; player 2's block is then a `continue`.
CaptureThresholds == {-1, 0, 1, SocketThreshold}
CaptureTraffic == { <<s, d>> \in Sockets \X { <<Run(1, 12)>>, <<Run(1, 250)>> } : TRUE }

\* the passes of one capture loop the model follows when the threshold lets the
\* loop go on for ever
MaxPasses == 3

\* the assignments made so far by a datagram that is still being processed
InstallWithin(st) ==
  /\ bytes_available' = st.bytes_available
  /\ bandwidth_usage' = st.bandwidth_usage
  /\ count' = st.count
  /\ allowed' = st.allowed
  /\ excess' = st.excess
  /\ p1_progress' = st.p1_progress
  /\ p2_progress' = st.p2_progress
  /\ score' = st.score
  /\ target_score' = st.target_score
  /\ target_file' = st.target_file
  /\ events' = st.events
  /\ captures' = st.captures
  /\ db' = st.db
  /\ ledger' = st.ledger
  /\ applied' = applied

\* the package server on a new game whose sockets have any of the thresholds
InitCapture ==
  /\ program = "server"
  /\ \E t \in CaptureThresholds : InitWith({0}, t)

\* recvfrom, and player 1's block down to its capture loop
BeginDatagram ==
  /\ program = "server"
  /\ pc = "process"
  /\ readable # <<>>
  /\ LET s == Head(readable)
         d == Head(queue[s])
         c == CountBytes(d, 1)
     IN /\ queue' = [queue EXCEPT ![s] = Tail(@)]
        /\ data' = d
        /\ IF c = 0
           THEN /\ InstallWithin([Cur EXCEPT !.count[1] = 0])
                /\ pc' = "captured"
           ELSE /\ InstallWithin(
                     Penalize(AddProgress(TrackUsage(Record(Consume(Cur, 1, c), s, 1), 1),
                                              s, 1), 1))
                /\ pc' = "capture"
  /\ UNCHANGED << program, observer, setup, iter, sent, readable, dt, since_window,
                  current_bandwidth, settings, lifecycle >>

\* one pass of `while socket.p1_progress >= socket.threshold and player_id == 1`
CapturePass ==
  /\ pc = "capture"
  /\ LET s == Head(readable)
     IN /\ p1_progress[s] >= threshold[s]
        /\ threshold[s] > 0 \/ captures[s][1] < MaxPasses
        /\ InstallWithin(CapturePoint([Cur EXCEPT !.p1_progress[s] = @ - threshold[s]],
                                      s, 1))
  /\ UNCHANGED << program, observer, setup, pc, iter, sent, queue, readable, data, dt, since_window,
                  current_bandwidth, settings, lifecycle >>

\* the loop's condition is false: the loop is left
CaptureLoopExit ==
  /\ pc = "capture"
  /\ p1_progress[Head(readable)] < threshold[Head(readable)]
  /\ pc' = "captured"
  /\ UNCHANGED << program, observer, setup, iter, sent, queue, readable, data, dt, bytes_available,
                  since_window, bandwidth_usage, current_bandwidth, count, allowed,
                  excess, p1_progress, p2_progress, settings, score, target_score,
                  target_file, events, captures, db, applied, ledger,
                  lifecycle >>

\* the rest of the datagram: the other players' blocks and socket.save
EndDatagram ==
  /\ pc = "captured"
  /\ Install(SocketSave(ServerPlayers(Cur, Head(readable), data, 2), Head(readable)))
  /\ readable' = Tail(readable)
  /\ pc' = IF readable' = <<>> THEN AfterReadable ELSE "process"
  /\ UNCHANGED << program, observer, setup, iter, sent, queue, data, dt, since_window,
                  current_bandwidth, settings, lifecycle >>

NextCapture ==
  \/ Cleanup
  \/ BindAll
  \/ \E sd \in CaptureTraffic : Send(sd[1], sd[2])
  \/ \E elapsed \in DtSet : ServerHead(elapsed)
  \/ Select
  \/ BeginDatagram
  \/ CapturePass
  \/ CaptureLoopExit
  \/ EndDatagram

SpecCapture == InitCapture /\ [][NextCapture]_vars

\* C22: a datagram is read only from the socket that select reported and that
\* has one waiting, and the capture loop stops: every pass leaves the progress
\* smaller than it found it, so the loop's condition, progress >= threshold,
\* turns false after finitely many passes.
C22_ReadsReadableAndCaptureLoopStops ==
  [][/\ \A s \in Sockets :
          (sock_open[s] /\ Len(queue'[s]) < Len(queue[s])) =>
            (pc = "process" /\ s = Head(readable) /\ sock_open'[s])
     /\ (pc = "capture" /\ captures' # captures) =>
          p1_progress'[Head(readable)] < p1_progress[Head(readable)]]_vars

\* ---------------------------------------------------------------- C23
\* C23: no step changes a socket's threshold, a bucket's capacity or a bucket's
\* refill rate.
C23_SettingsNeverChange ==
  [][/\ threshold' = threshold
     /\ bytes_max' = bytes_max
     /\ refill_rate' = refill_rate]_vars

\* two iterations have run, with a window reset, a penalty and a capture behind
\* them, and thresholds, capacities and rates are as they were at loop start
C23_Witness ==
  /\ iter = 2
  /\ pc = "head"
  /\ \E p \in Players : current_bandwidth[p] > 0
  /\ \E i, j \in DOMAIN events :
       events[i].source = "BandwidthExceeded" /\ events[j].source = "Tick"
  /\ threshold = [s \in Sockets |-> SocketThreshold]
  /\ bytes_max = [p \in Players |-> BytesMax]
  /\ refill_rate = [p \in Players |-> PlayerBandwidth * KiB]

\* ---------------------------------------------------------------- C24
\* C24: scores, progress counters, target scores and the event log change only
\* in the processing of a datagram: every other step of an iteration (its head,
\* the select, the saves at its end), and so every iteration in which no socket
\* is readable, leaves them as they are, whatever time has passed.
C24_OnlyDatagramsChangeScores ==
  [][pc # "process" =>
       UNCHANGED << score, p1_progress, p2_progress, target_score, events >>]_vars

\* ---------------------------------------------------------------- C25
\* the sum of the deltas of player p's events among the first n events
RECURSIVE DeltasOf(_, _)
DeltasOf(p, n) ==
  IF n = 0 THEN 0
  ELSE DeltasOf(p, n - 1) + (IF events[n].player = p THEN events[n].delta ELSE 0)

\* C25: in every state each player's score is the score at loop start (0) plus
\* the deltas of the player's events, and each event's new_score is the score
\* the player had before it plus its delta.
C25_ScoreIsSumOfDeltas ==
  \A p \in Players :
    /\ score[p] = DeltasOf(p, Len(events))
    /\ \A i \in DOMAIN events :
         events[i].player = p => events[i].new_score = DeltasOf(p, i)

\* ---------------------------------------------------------------- C26
\* the datagram processed by the step gave player p both captures and excess on
\* the package server
CapturesAndExcess(p) ==
  /\ Processing
  /\ program = "server"
  /\ excess'[p] > 0
  /\ count'[p] >= 1
  /\ captures'[CurrentSocket][p] > captures[CurrentSocket][p]

\* C26 (as stated): the capture events of the datagram come before its
\* BandwidthExceeded event in the event log.
C26_CaptureEventsBeforePenalty ==
  [][\A p \in Players :
       CapturesAndExcess(p) =>
         \A i \in NewEventsOf(p, "Tick"), j \in NewEventsOf(p, "BandwidthExceeded") :
           i < j]_vars

\* C26 (amended): the step appends for the player one BandwidthExceeded event
\* and then one Tick event per capture: the penalty is recorded before every
\* capture of the same datagram.
C26_PenaltyBeforeCaptureEvents ==
  [][\A p \in Players :
       CapturesAndExcess(p) =>
         /\ Cardinality(NewEventsOf(p, "BandwidthExceeded")) = 1
         /\ Cardinality(NewEventsOf(p, "Tick"))
              = captures'[CurrentSocket][p] - captures[CurrentSocket][p]
         /\ \A i \in NewEventsOf(p, "Tick"), j \in NewEventsOf(p, "BandwidthExceeded") :
              j < i]_vars

\* the package server has processed 10300 bytes of player 1 on a full bucket: a
\* penalty for 60 bytes, recorded first, and 102 captures after it
C26_Witness ==
  /\ program = "server"
  /\ pc # "done"
  /\ data = <<Run(1, 10300)>>
  /\ excess[1] = 10300 - BytesMax
  /\ Len(events) = 103
  /\ events[1].source = "BandwidthExceeded"
  /\ events[1].new_score = -(10300 - BytesMax)
  /\ events[103].source = "Tick"
  /\ score[1] = 102 - (10300 - BytesMax)

\* ---------------------------------------------------------------- C27
\* the step ends an iteration: the loop goes back to its head
IterationEnds == pc \in {"select", "process", "save"} /\ pc' = "head"

\* the step writes socket s's progress to the database once: the package server
\* after a datagram of s, the standalone loop in the saves that end an iteration
WritesProgressOnce(s) ==
  \/ program = "server" /\ Processing /\ s = CurrentSocket
  \/ program = "yar" /\ pc = "save" /\ pc' = "head"

\* C27: when an iteration ends, the database holds every socket's progress and
\* every player's score as they are in memory; and a socket's progress is
\* written once per datagram processed on it (package server) or once per
\* iteration (standalone loop), whatever the number of bytes, and at no other
\* step.
C27_PersistedAtIterationEnd ==
  [][/\ IterationEnds =>
          /\ db'.score = score'
          /\ db'.p1_progress = p1_progress'
          /\ db'.p2_progress = p2_progress'
     /\ \A s \in Sockets :
          /\ db'.progress_writes[s] - db.progress_writes[s] \in {0, 1}
          /\ pc' # "done" =>
               (db'.progress_writes[s] = db.progress_writes[s] + 1
                  <=> WritesProgressOnce(s))]_vars

\* the package server is back at the head of its loop after a datagram of 10300
\* bytes on the first socket: one write of that socket's progress, the progress
\* left and the score, penalty included, in the database as in memory
C27_Witness ==
  /\ program = "server"
  /\ pc = "head"
  /\ iter >= 1
  /\ data = <<Run(1, 10300)>>
  /\ db.progress_writes = [s \in Sockets |-> IF s = 1 THEN 1 ELSE 0]
  /\ p1_progress[1] = BytesMax % SocketThreshold
  /\ db.p1_progress[1] = BytesMax % SocketThreshold
  /\ Len(events) = 103
  /\ score[1] = events[103].new_score
  /\ db.score = score

\* ---------------------------------------------------------------- C28
\* C28: every write of a socket's progress stores the values the socket has in
\* memory when the write is made, and the persisted progress changes by such a
\* write only; the writes of one socket are awaited one after the other, so the
\* values persisted for it follow the order of its updates in memory, also in
\* the standalone loop, which issues the saves of all its factories together.
C28_WritesFollowUpdates ==
  [][\A s \in Sockets :
       /\ db'.progress_writes[s] # db.progress_writes[s] =>
            /\ db'.p1_progress[s] = p1_progress'[s]
            /\ db'.p2_progress[s] = p2_progress'[s]
       /\ (db'.p1_progress[s] # db.p1_progress[s]
             \/ db'.p2_progress[s] # db.p2_progress[s]) =>
            db'.progress_writes[s] = db.progress_writes[s] + 1]_vars

\* the standalone loop has twice saved its factories together, both factories
\* having been updated by captures, and holds what it saved last
C28_Witness ==
  /\ program = "yar"
  /\ pc = "head"
  /\ db.progress_writes = [s \in Sockets |-> 2]
  /\ \A s \in Sockets : captures[s][1] > 0
  /\ db.p1_progress = p1_progress
  /\ db.target_score = target_score

\* ---------------------------------------------------------------- C29
\* the steps of the loop between two datagrams: as long as run_socket_server is
\* not left, the event loop goes on executing its only task
LoopRuns ==
  \/ \E elapsed \in DtSet : ServerHead(elapsed)
  \/ \E elapsed \in DtSet : YarHead(elapsed)
  \/ Select
  \/ YarSaveAll

\* the loop on the game with threshold 5 and datagrams of 12 bytes under that
\* scheduling; the processing of the datagrams select has reported comes to its
\* end, or raises: the loop does not stay in `for socket_file in readable`
SpecLive == SpecScenario /\ WF_vars(LoopRuns) /\ []<>(pc # "process")

InReadable(s) == \E i \in DOMAIN readable : readable[i] = s

\* the model follows MaxIter iterations: those still to come are enough for all
\* the datagrams now waiting on socket s, at one per iteration
IterationsSuffice(s) ==
  iter + Len(queue[s])
    - (IF pc = "select" \/ (pc = "process" /\ InReadable(s)) THEN 1 ELSE 0) <= MaxIter

\* C29, within an iteration: select reports each socket that has a datagram
\* waiting once, and no other; a datagram leaves a socket's queue only when the
\* loop reads it, from the socket at the head of what select reported, and it
\* is the one that arrived first; that socket is then done for the iteration,
\* which ends when the sockets reported have all been read once.
C29_OnePerReadableSocket ==
  [][/\ (pc = "select" /\ pc' \notin {"select", "done"}) =>
          /\ \A s \in Sockets : InReadable(s)' <=> queue[s] # <<>>
          /\ \A i, j \in DOMAIN readable' : readable'[i] = readable'[j] => i = j
     /\ \A s \in Sockets :
          (queue'[s] # queue[s] /\ sock_open'[s] /\ sock_open[s]) =>
            \/ pc = "select" /\ queue[s] = SubSeq(queue'[s], 1, Len(queue[s]))
            \/ /\ pc = "process"
               /\ s = Head(readable)
               /\ data' = Head(queue[s])
               /\ queue'[s] = Tail(queue[s])
     /\ Processing =>
          /\ readable' = Tail(readable)
          /\ queue'[CurrentSocket] = Tail(queue[CurrentSocket])
          /\ (pc' = "process") <=> (readable' # <<>>)]_vars

\* C29: the above, and the datagrams waiting on a socket are eventually all
\* read, unless run_socket_server is left first (or a further datagram arrives,
\* for which the same holds in turn).
C29_OnePerIterationInOrderEventually ==
  /\ C29_OnePerReadableSocket
  /\ \A s \in Sockets, n \in 0..MaxSent :
       [](queue[s] # <<>> /\ sent = n /\ IterationsSuffice(s)
            => <>(queue[s] = <<>> \/ sent > n \/ Exited))

\* two datagrams arrived on the second socket before select; the iteration has
\* read the one that arrived first and left the other for the next iteration
C29_Witness ==
  /\ iter = 1
  /\ pc = AfterReadable
  /\ readable = <<>>
  /\ data = <<Run(1, 12)>>
  /\ queue[2] = << <<Run(2, 12)>> >>
  /\ queue[1] = <<>>
  /\ p1_progress[2] = 12 % ScenarioThreshold
  /\ sock_open[2]

\* ---------------------------------------------------------------- C30
\* the ids of player p's events greater than lo and at most hi, in id order
IdsBetween(p, lo, hi) ==
  LET own == SelectSeq(events, LAMBDA e : e.player = p /\ e.id > lo /\ e.id <= hi)
  IN  [i \in 1..Len(own) |-> own[i].id]

AtLoopStart == pc \in {"cleanup", "bind"}

\* C31: at loop start, on the first run and on every later one, each player's
\* bucket is full (bytes_available = bytes_max = 10240, the burst capacity) and
\* its rate is the player's configured bandwidth turned into bytes per second
\* (bandwidth * 1024), whatever the run before has consumed
C31_BucketRebuiltFromConfiguration ==
  [][/\ AtLoopStart =>
          \A p \in Players : /\ bytes_available[p] = bytes_max[p] * Res
                             /\ bytes_max[p] = BytesMax
                             /\ refill_rate[p] = PlayerBandwidth * KiB
     /\ AtLoopStart' =>
          \A p \in Players : /\ bytes_available'[p] = bytes_max'[p] * Res
                             /\ bytes_max'[p] = BytesMax
                             /\ refill_rate'[p] = PlayerBandwidth * KiB]_vars

\* a second run of the package server starts with full buckets on a game whose
\* first run had emptied player 1's bucket (the penalty of 60 is in the log)
C31_Witness ==
  /\ program = "server"
  /\ pc = "bind"
  /\ iter = 1
  /\ exit_reason = "none"
  /\ Len(events) = 103
  /\ events[1].source = "BandwidthExceeded"
  /\ events[1].delta = -60
  /\ bytes_available[1] = BytesMax * Res
  /\ score[1] = 42
  /\ p1_progress[1] = BytesMax % SocketThreshold

\* ---------------------------------------------------------------- C32
\* the rows of the game that setup_game has created
NewSockets == SelectSeq(setup.sockets, LAMBDA r : r.game = setup.game)
NewPlayers == SelectSeq(setup.players, LAMBDA r : r.game = setup.game)

\* C32: once setup_game(num_sockets) has returned, the new game has exactly
\* num_sockets sockets, each with both progress counters 0 and the configured
\* socket_threshold, and exactly two players, 1 and 2, each with score 0 and the
\* configured bandwidth
C32_SetupGameCreatesTheGame ==
  setup.pc = "returned" =>
    /\ Len(NewSockets) = setup.num_sockets
    /\ \A i \in DOMAIN NewSockets :
         /\ NewSockets[i].p1_progress = 0
         /\ NewSockets[i].p2_progress = 0
         /\ NewSockets[i].threshold = setup.config.socket_threshold
    /\ Len(NewPlayers) = 2
    /\ {NewPlayers[i].player_id : i \in DOMAIN NewPlayers} = {1, 2}
    /\ \A i \in DOMAIN NewPlayers :
         /\ NewPlayers[i].score = 0
         /\ NewPlayers[i].bandwidth = setup.config.player_bandwidth

\* a second game of three sockets, set up under threshold 5 and bandwidth 64
\* beside a game that has been played
C32_Witness ==
  /\ setup.pc = "returned"
  /\ setup.game = 2
  /\ setup.num_sockets = 3
  /\ Len(setup.sockets) = 4
  /\ setup.sockets[1].p1_progress = 50
  /\ setup.sockets[4] = [game |-> 2, index |-> 3, p1_progress |-> 0,
                         p2_progress |-> 0, threshold |-> ScenarioThreshold]
  /\ Len(setup.players) = 4
  /\ setup.players[2].score = 42
  /\ setup.players[4] = [game |-> 2, player_id |-> 2, pid |-> 12,
                         bandwidth |-> 64, score |-> 0]

\* ---------------------------------------------------------------- C33
\* the bytes allowed to player p, over all sockets, in the iterations i..j
RECURSIVE AllowedIn(_, _, _)
AllowedIn(p, i, j) ==
  IF i > j THEN 0
  ELSE SumOver([s \in Sockets |-> ledger.iterations[i].allowed[s][p]], Sockets)
       + AllowedIn(p, i + 1, j)

\* the time elapsed over the iterations i..j, in ticks: the sum of their dt
RECURSIVE ElapsedIn(_, _)
ElapsedIn(i, j) ==
  IF i > j THEN 0 ELSE ledger.iterations[i].dt + ElapsedIn(i + 1, j)

RECURSIVE AllowedOn(_, _, _)
AllowedOn(s, p, n) ==
  IF n = 0 THEN 0 ELSE ledger.iterations[n].allowed[s][p] + AllowedOn(s, p, n - 1)

StartProgressOf(s, p) ==
  IF p = 1 THEN ledger.start.p1_progress[s] ELSE ledger.start.p2_progress[s]

\* the loop is between two datagrams, none of them half processed
AtDatagramBoundary == pc \in {"head", "select", "process", "save"}

\* C34: at a datagram boundary, for each socket and player, the bytes allowed
\* since the loop started plus the progress it started on equal the threshold
\* times the captures made plus the current progress
C34_AllowedBytesAllAccounted ==
  AtDatagramBoundary =>
    \A s \in Sockets, p \in Players :
      AllowedOn(s, p, Len(ledger.iterations)) + StartProgressOf(s, p)
        = threshold[s] * captures[s][p] + Progress(s, p)

\* a game resumed at progress 50 on which one datagram of 70 bytes of player 1
\* and 105 of player 2 has given each a capture
C34_Witness ==
  /\ program = "server"
  /\ pc = "head"
  /\ iter = 1
  /\ ledger.start.p1_progress[1] = 50
  /\ ledger.start.p2_progress[1] = 50
  /\ ledger.iterations[1].allowed[1][1] = 70
  /\ ledger.iterations[1].allowed[1][2] = 105
  /\ captures[1][1] = 1
  /\ captures[1][2] = 1
  /\ p1_progress[1] = 20
  /\ p2_progress[1] = 55

\* ---------------------------------------------------------------- C35
\* the captures of player p over all sockets, the excess bytes of player p over
\* all iterations, since the loop started
CapturesOf(p) == SumOver([s \in Sockets |-> captures[s][p]], Sockets)

RECURSIVE ExcessOf(_, _)
ExcessOf(p, n) ==
  IF n = 0 THEN 0 ELSE ledger.iterations[n].excess[p] + ExcessOf(p, n - 1)

\* C35: in the package server, at a datagram boundary, each player's score has
\* changed since the loop started by the number of the player's captures less
\* bandwidth_penalty times the player's excess bytes; it is not clamped at 0
C35_ScoreIsCapturesLessPenalties ==
  (program = "server" /\ AtDatagramBoundary) =>
    \A p \in Players :
      score[p] - ledger.start.score[p]
        = CapturesOf(p) - BandwidthPenalty * ExcessOf(p, Len(ledger.iterations))

\* 10300 bytes of player 1 twice on one socket, the second a poll after the first:
\* 102 captures and 60 bytes in excess, then 2 bytes allowed and 10298 in excess,
\* and a negative score
C35_Witness ==
  /\ program = "server"
  /\ pc = "head"
  /\ iter = 2
  /\ ledger.iterations[2].dt = 1
  /\ CapturesOf(1) = 102
  /\ ledger.iterations[1].excess[1] = 60
  /\ ledger.iterations[2].excess[1] = 10298
  /\ score[1] = -10256
  /\ db.score[1] = -10256

\* ---------------------------------------------------------------- C36
\* the body of `for player in players` of the running program, for player p
PlayerBlock(st, s, p, d) ==
  IF program = "server" THEN ServerPlayer(st, s, p, d) ELSE YarPlayer(st, s, p, d)

\* player q's counter on socket s, bucket, score and captures on s are the same
\* after as before, and no event of q has been added
Untouched(before, after, s, q) ==
  /\ after.bytes_available[q] = before.bytes_available[q]
  /\ after.p1_progress[s] = before.p1_progress[s] \/ q # 1
  /\ after.p2_progress[s] = before.p2_progress[s] \/ q # 2
  /\ after.score[q] = before.score[q]
  /\ after.captures[s][q] = before.captures[s][q]
  /\ \A i \in (Len(before.events) + 1)..Len(after.events) : after.events[i].player # q

\* C36: for the datagram about to be read, the processing of player 1's bytes
\* leaves player 2's progress on the socket, bucket and score as they are and
\* captures nothing for player 2, and the processing of player 2's bytes, which
\* follows it, does the same for player 1
C36_OtherPlayerUntouched ==
  (pc = "process" /\ readable # <<>>) =>
    LET s == Head(readable)
        d == Head(queue[s])
        after1 == PlayerBlock(Cur, s, 1, d)
        after2 == PlayerBlock(after1, s, 2, d)
    IN /\ Untouched(Cur, after1, s, 2)
       /\ Untouched(after1, after2, s, 1)

\* a datagram of 70 bytes of player 1 and 105 of player 2 has been processed on a
\* new game of the package server: a capture for player 2, none for player 1
C36_Witness ==
  /\ program = "server"
  /\ pc = "head"
  /\ iter = 1
  /\ data = <<Run(2, 60), Run(9, 1), Run(1, 70), Run(2, 45)>>
  /\ allowed = <<70, 105>>
  /\ p1_progress[1] = 70
  /\ p2_progress[1] = 5
  /\ captures[1] = <<0, 1>>
  /\ score = <<0, 1>>
  /\ bytes_available = <<(BytesMax - 70) * Res, (BytesMax - 105) * Res>>
  /\ Len(events) = 1
  /\ events[1].player = 2

\* ---------------------------------------------------------------- C37
\* the bytes the step has allowed to player p on all sockets
AllowedByStep(p) ==
  LET n == Len(ledger.iterations)
  IN SumOver([s \in Sockets |-> ledger'.iterations[n].allowed[s][p]
                                  - ledger.iterations[n].allowed[s][p]], Sockets)

\* C37: in the package server, an iteration that starts a second or more after
\* the usage window started sets every player's current_bandwidth to the
\* player's usage counter, resets every counter to 0 and starts a new window;
\* any other iteration start leaves them alone; the processing of a datagram
\* makes each counter grow by exactly the bytes it allows the player
C37_UsageWindow ==
  [][program = "server" =>
       /\ (pc = "head" /\ iter' = iter + 1) =>
            IF WindowDue(ledger'.iterations[iter'].dt)
            THEN /\ current_bandwidth' = bandwidth_usage
                 /\ bandwidth_usage' = [p \in Players |-> 0]
                 /\ since_window' = 0
                 /\ pc' = "select"
            ELSE UNCHANGED << current_bandwidth, bandwidth_usage >>
       /\ (pc = "process" /\ pc' # "done") =>
            /\ \A p \in Players :
                 /\ bandwidth_usage'[p] = bandwidth_usage[p] + AllowedByStep(p)
                 /\ bandwidth_usage'[p] >= bandwidth_usage[p]
            /\ current_bandwidth' = current_bandwidth]_vars

\* ---------------------------------------------------------------- C38
\* the events a tick of total T appends: one Tick event per player, player 1
\* first, and none when T is 0
TickEvents(T) ==
  IF T = 0 THEN <<>>
  ELSE << [id |-> Len(events) + 1, player |-> 1, source |-> "Tick",
           delta |-> T, new_score |-> score[1] + T],
          [id |-> Len(events) + 2, player |-> 2, source |-> "Tick",
           delta |-> -T, new_score |-> score[2] - T] >>

\* C38: in the standalone loop, an iteration that starts a second or more after
\* the last tick changes player 1's score by +T and player 2's by -T, T being
\* the sum of the target scores, and records a Tick event for each when T is not
\* 0; any other iteration start changes no score and records nothing; one
\* iteration applies one tick at most
C38_TickIsZeroSum ==
  [][(program = "yar" /\ pc = "head" /\ iter' = iter + 1) =>
       LET T == SumOver(target_score, Sockets)
       IN IF WindowDue(ledger'.iterations[iter'].dt)
          THEN /\ score' = [score EXCEPT ![1] = @ + T, ![2] = @ - T]
               /\ events' = events \o TickEvents(T)
          ELSE /\ score' = score
               /\ events' = events]_vars

\* ---------------------------------------------------------------- C39
\* C39: in the standalone loop every bound factory is paired with a target,
\* whatever game of the Game table the loop is started on, and the assertion on
\* a received datagram's target does not fail
C39_EveryFactoryHasATarget ==
  setup.pc \in {"running", "ended"} =>
    /\ \A idx \in DOMAIN setup.paired : setup.paired[idx] # 0
    /\ setup.asserted # "failed"

\* the loop, resumed on a game whose setup was interrupted after its second
\* factory, has received a datagram on that factory: its target is the second
C39_Witness ==
  /\ setup.pc = "running"
  /\ setup.game = 2
  /\ setup.run = 1
  /\ Len(RowsOf(setup.targets, 1)) = NumTargets
  /\ Len(RowsOf(setup.factories, 1)) = 2
  /\ RowsOf(setup.players, 1) = <<>>
  /\ setup.paired = <<1, 2>>
  /\ setup.asserted = "held"

====
